---- MODULE Spec2Model ----
(***************************************************************************)
(* A model of the txcrimemap geocode handler                               *)
(* (src/src/modules/helper_functions.rs): one POST /geocode request runs   *)
(* geocoder call -> county resolution -> neighbor-map load -> county-set   *)
(* build -> concurrent paginated DynamoDB fan-out (query_dynamo) ->        *)
(* geometry transcoding -> response.  The external collaborators (Google   *)
(* geocoder, S3 object, DynamoDB table) are fixed when a behaviour starts  *)
(* and answer deterministically from then on.                              *)
(***************************************************************************)
EXTENDS Integers, Sequences, FiniteSets, TLC

(***************************************************************************)
(* Bounds of the model.                                                    *)
(***************************************************************************)
MaxRows == 3        \* rows the table holds for one county, at most
MaxPageSize == 2    \* rows DynamoDB puts on one page, at most
MaxNeighbors == 2   \* length of a neighbor list in the S3 object, at most
MaxSent == 5        \* requests of one task the model follows, at most

(***************************************************************************)
(* Option / Result values of the Rust code.                                *)
(***************************************************************************)
None == [tag |-> "None"]
Some(x) == [tag |-> "Some", v |-> x]
Ok(x) == [tag |-> "Ok", v |-> x]
Err(e) == [tag |-> "Err", e |-> e]
IsSome(o) == o.tag = "Some"
IsOk(x) == x.tag = "Ok"

Reqs == {"r1", "r2"}
Counties == {"Travis", "Hays"}
Digit == <<"1", "2", "3", "4", "5", "6">>

Min(a, b) == IF a < b THEN a ELSE b

(***************************************************************************)
(* The HTTP status codes the handler uses.                                 *)
(***************************************************************************)
OK == 200
NOT_FOUND == 404
INTERNAL_SERVER_ERROR == 500

(***************************************************************************)
(* The geocoding provider: address -> Err, or Ok(list of results), each    *)
(* with a location and ordered address components (long_name, types).      *)
(***************************************************************************)
AdministrativeAreaLevel2 == "administrative_area_level_2"

Addresses == {"unreachable", "nowhere", "Texas", "Austin", "Kyle", "County Line"}

GeocodingExecute(address) ==
  CASE address = "unreachable" -> Err("geocoding request failed")
    [] address = "nowhere" -> Ok(<<>>)
    [] address = "Texas" ->
         Ok(<< [location |-> [lat |-> 31, lng |-> -99],
                address_components |->
                  << [long_name |-> "Texas",
                      types |-> <<"administrative_area_level_1", "political">>],
                     [long_name |-> "United States",
                      types |-> <<"country", "political">>] >>] >>)
    [] address = "Austin" ->
         Ok(<< [location |-> [lat |-> 30, lng |-> -97],
                address_components |->
                  << [long_name |-> "Austin",
                      types |-> <<"locality", "political">>],
                     [long_name |-> "Travis County",
                      types |-> <<"political", AdministrativeAreaLevel2>>],
                     [long_name |-> "Hays County",
                      types |-> <<AdministrativeAreaLevel2>>] >>],
               [location |-> [lat |-> 29, lng |-> -98],
                address_components |->
                  << [long_name |-> "Hays County",
                      types |-> <<AdministrativeAreaLevel2>>] >>] >>)
    [] address = "Kyle" ->
         Ok(<< [location |-> [lat |-> 29, lng |-> -98],
                address_components |->
                  << [long_name |-> "Hays County",
                      types |-> <<AdministrativeAreaLevel2, "political">>] >>] >>)
    [] address = "County Line" ->
         Ok(<< [location |-> [lat |-> 30, lng |-> -98],
                address_components |->
                  << [long_name |-> "Hays County Line County",
                      types |-> <<AdministrativeAreaLevel2, "political">>] >>] >>)

(***************************************************************************)
(* str::replace(from, ""): every non-overlapping occurrence of from,       *)
(* scanning left to right, is removed.                                     *)
(***************************************************************************)
RECURSIVE RemoveAll(_, _)
RemoveAll(s, from) ==
  IF Len(s) < Len(from) THEN s
  ELSE IF SubSeq(s, 1, Len(from)) = from
       THEN RemoveAll(SubSeq(s, Len(from) + 1, Len(s)), from)
       ELSE SubSeq(s, 1, 1) \o RemoveAll(SubSeq(s, 2, Len(s)), from)

HasType(comp, t) == \E k \in 1..Len(comp.types) : comp.types[k] = t

\* geocode, lines 166-177: the first component, in component order, carrying
\* the administrative-area-level-2 tag, with " County" removed from its name.
TargetCounty(first) ==
  LET comps == first.address_components
      hits == {k \in 1..Len(comps) : HasType(comps[k], AdministrativeAreaLevel2)}
  IN IF hits = {} THEN None
     ELSE LET k == CHOOSE k \in hits : \A j \in hits : k <= j
          IN Some(RemoveAll(comps[k].long_name, " County"))

(***************************************************************************)
(* The S3 object texas_county_neighbors.json.                              *)
(***************************************************************************)
NeighborCatalog == <<"Hays", "Travis", "Hays", "Travis">>

S3Objects ==
  {[tag |-> "NoSuchKey"], [tag |-> "Bytes", json |-> Err("expected value")]}
  \cup {[tag |-> "Bytes",
         json |-> Ok([c \in {"Travis"} |-> SubSeq(NeighborCatalog, 1, n)])] :
          n \in 0..MaxNeighbors}

\* download_object: get_object(...).send().await, errors mapped to a string
download_object(obj) ==
  IF obj.tag = "Bytes" THEN Ok(obj) ELSE Err("error code: " \o obj.tag)

\* a loader that answers a failed download or parse with an empty map
LoadOrEmptyMap(obj) ==
  IF obj.tag = "Bytes" /\ IsOk(obj.json) THEN Ok(obj.json.v) ELSE Ok(<<>>)

\* load_neighbor_map_from_s3: download, collect the body, serde_json::from_slice
load_neighbor_map_from_s3(obj) ==
  LET output == download_object(obj)
  IN IF ~IsOk(output) THEN output
     ELSE IF ~IsOk(output.v.json) THEN Err(output.v.json.e)
     ELSE Ok(output.v.json.v)

\* a county list with the target appended after its neighbors
NeighborsThenTarget(target_county, neighbors_map) ==
  (IF target_county \in DOMAIN neighbors_map
   THEN neighbors_map[target_county] ELSE <<>>) \o <<target_county>>

\* seq without the elements of seen and without repetitions
RECURSIVE Dedup(_, _)
Dedup(seq, seen) ==
  IF seq = <<>> THEN <<>>
  ELSE IF Head(seq) \in seen THEN Dedup(Tail(seq), seen)
  ELSE <<Head(seq)>> \o Dedup(Tail(seq), seen \cup {Head(seq)})

\* a county list that names every county once
CountiesToQueryDedup(target_county, neighbors_map) ==
  <<target_county>> \o
    Dedup(IF target_county \in DOMAIN neighbors_map
          THEN neighbors_map[target_county] ELSE <<>>, {target_county})

\* geocode, lines 195-198
CountiesToQuery(target_county, neighbors_map) ==
  <<target_county>> \o
    (IF target_county \in DOMAIN neighbors_map
     THEN neighbors_map[target_county] ELSE <<>>)

(***************************************************************************)
(* The DynamoDB table.  A table state d fixes, per county, how many rows   *)
(* the table holds (rows), which page request the store fails (failAt, 0:  *)
(* none), what the rows look like (quality) and how many rows go on a page.*)
(***************************************************************************)
Qualities == {"valid", "mixed", "corrupt"}

Tables ==
  [rows : [Counties -> 0..MaxRows], failAt : [Counties -> 0..MaxRows],
   quality : Qualities, pageSize : 1..MaxPageSize]

\* further ways the first row of a county can depart from the expected
\* attributes, and rows whose Geometry is no well-known text at all
RecordDefects ==
  {"no_county", "no_geometry", "geoid_number", "no_percentile",
   "percentile_string", "garbled"}

\* tables with counties (endless) for which the store returns a
\* LastEvaluatedKey on every page
LiveTables ==
  [rows : {[c \in Counties |-> MaxRows]},
   failAt : {[c \in Counties |-> 0],
             [c \in Counties |-> IF c = "Hays" THEN 1 ELSE 0]},
   quality : {"mixed"}, pageSize : {MaxPageSize}, endless : SUBSET Counties]

\* tables that answer every request, with rows of every kind
RecordTables ==
  [rows : [Counties -> 0..MaxRows], failAt : {[c \in Counties |-> 0]},
   quality : Qualities \cup RecordDefects, pageSize : {MaxPageSize}]

\* the County attribute of a county's rows: "<Name> County"
StoredName(c) == c \o " County"

GoodWkt(i) == IF i % 2 = 1 THEN "POINT (30 10)"
              ELSE "POLYGON ((0 0, 4 0, 4 4, 0 0))"
BadWkt(i) == IF i % 2 = 1 THEN "POINT (30" ELSE "POINT EMPTY"
GarbledWkt(i) ==
  CASE i % 4 = 1 -> ""
    [] i % 4 = 2 -> "not a geometry"
    [] i % 4 = 3 -> "POLYGON ((0 0, 4 0"
    [] OTHER -> "POINT (30 10"

PercentileText == <<"10", "20", "30", "40", "50", "60">>

S(x) == [t |-> "S", s |-> x]
N(x) == [t |-> "N", n |-> x]

Drop(item, k) == [a \in DOMAIN item \ {k} |-> item[a]]

\* row i of county c in table state d
Row(d, c, i) ==
  LET bad == d.quality = "mixed" /\ (i % 2 = 1 <=> c = "Travis")
      full == [GEOID |-> S(SubSeq(c, 1, 1) \o Digit[i]),
               County |-> S(StoredName(c)),
               Geometry |-> S(IF bad THEN BadWkt(i) ELSE GoodWkt(i)),
               WeightedCrimePercentile |-> N(PercentileText[i])]
  IN IF d.quality = "garbled"
     THEN [full EXCEPT !.Geometry = S(GarbledWkt(i))]
     ELSE IF i # 1 THEN full
     ELSE CASE d.quality = "corrupt" -> Drop(full, "GEOID")
            [] d.quality = "no_county" -> Drop(full, "County")
            [] d.quality = "no_geometry" -> Drop(full, "Geometry")
            [] d.quality = "geoid_number" -> [full EXCEPT !.GEOID = N("48453")]
            [] d.quality = "no_percentile" ->
                 Drop(full, "WeightedCrimePercentile")
            [] d.quality = "percentile_string" ->
                 [full EXCEPT !.WeightedCrimePercentile = S("high")]
            [] OTHER -> full

Rows(d, c) == [i \in 1..d.rows[c] |-> Row(d, c, i)]

\* CountyIndex: the rows whose County attribute equals the key, in index order
CountyIndex(d, key) ==
  LET cs == {c \in Counties : StoredName(c) = key}
  IN IF cs = {} THEN <<>> ELSE Rows(d, CHOOSE c \in cs : TRUE)

\* One Query on CountyIndex with an optional ExclusiveStartKey (the number of
\* rows already evaluated): a page of at most pageSize rows and, when rows
\* remain, a LastEvaluatedKey; or the store's error for that page request.
Query(d, key, exclusive_start_key) ==
  LET all == CountyIndex(d, key)
      from == IF IsSome(exclusive_start_key) THEN exclusive_start_key.v ELSE 0
      to == Min(from + d.pageSize, Len(all))
      page == (from \div d.pageSize) + 1
      cs == {c \in Counties : StoredName(c) = key}
      endless == \E c \in cs : "endless" \in DOMAIN d /\ c \in d.endless
  IN IF \E c \in cs : d.failAt[c] = page
     THEN Err([code |-> "ProvisionedThroughputExceededException",
               key |-> key, page |-> page])
     ELSE Ok([items |-> Some(SubSeq(all, from + 1, to)),
              last_evaluated_key |->
                IF to < Len(all) \/ endless THEN Some(to) ELSE None])

\* the pages the store holds for a key: at least one (an empty one when the
\* key matches no row)
NumPages(d, key) ==
  LET n == Len(CountyIndex(d, key))
  IN IF n = 0 THEN 1 ELSE ((n - 1) \div d.pageSize) + 1

(***************************************************************************)
(* wkt_to_geojson: parse the text (Wkt::from_str), convert to a geo        *)
(* geometry (try_into), serialize as GeoJSON; any failure gives None.      *)
(***************************************************************************)
WktParse(wkt_str) ==
  CASE wkt_str = "POINT (30 10)" -> Ok([type |-> "Point", coords |-> <<30, 10>>])
    [] wkt_str = "POLYGON ((0 0, 4 0, 4 4, 0 0))" ->
         Ok([type |-> "Polygon",
             coords |-> <<0, 0, 4, 0, 4, 4, 0, 0>>])
    [] wkt_str = "POINT EMPTY" -> Ok([type |-> "Point", coords |-> <<>>])
    [] OTHER -> Err("invalid WKT")

\* wkt -> geo_types: a point without coordinates has no geo_types counterpart
TryIntoGeo(item) ==
  IF item.type = "Point" /\ item.coords = <<>>
  THEN Err("PointConversionError") ELSE Ok(item)

\* a transcoder that answers a parse failure with an empty geometry
wkt_to_geojsonLenient(wkt_str) ==
  LET wkt_parsed == WktParse(wkt_str)
  IN IF ~IsOk(wkt_parsed)
     THEN Some([type |-> "GeometryCollection", coordinates |-> <<>>])
     ELSE LET geo_geom == TryIntoGeo(wkt_parsed.v)
          IN IF ~IsOk(geo_geom) THEN None
             ELSE Some([type |-> geo_geom.v.type,
                        coordinates |-> geo_geom.v.coords])

wkt_to_geojson(wkt_str) ==
  LET wkt_parsed == WktParse(wkt_str)
  IN IF ~IsOk(wkt_parsed) THEN None
     ELSE LET geo_geom == TryIntoGeo(wkt_parsed.v)
          IN IF ~IsOk(geo_geom) THEN None
             ELSE Some([type |-> geo_geom.v.type,
                        coordinates |-> geo_geom.v.coords])

(***************************************************************************)
(* geocode, lines 217-263: the loop over the returned items.               *)
(***************************************************************************)
GetS(item, k) ==
  IF k \in DOMAIN item /\ item[k].t = "S" THEN Some(item[k].s) ELSE None

ParseF64(n) ==
  LET ks == {k \in 1..Len(PercentileText) : PercentileText[k] = n}
  IN IF ks = {} THEN None ELSE Some(10 * (CHOOSE k \in ks : TRUE))

GetPercentile(item) ==
  LET k == "WeightedCrimePercentile"
  IN IF k \in DOMAIN item /\ item[k].t = "N" /\ IsSome(ParseF64(item[k].n))
     THEN ParseF64(item[k].n).v ELSE 0

\* the three .unwrap() calls of lines 220-236 succeed
Unwraps(item) ==
  /\ IsSome(GetS(item, "GEOID"))
  /\ IsSome(GetS(item, "County"))
  /\ IsSome(GetS(item, "Geometry"))

Transcodes(item) == IsSome(wkt_to_geojson(GetS(item, "Geometry").v))

\* an entry that leaves the percentile at its default
AreaDefaultPercentile(item) ==
  [geo_id |-> GetS(item, "GEOID").v,
   county |-> GetS(item, "County").v,
   crime_percentile |-> 0,
   geometry |-> wkt_to_geojson(GetS(item, "Geometry").v).v]

Area(item) ==
  [geo_id |-> GetS(item, "GEOID").v,
   county |-> GetS(item, "County").v,
   crime_percentile |-> GetPercentile(item),
   geometry |-> wkt_to_geojson(GetS(item, "Geometry").v).v]

\* lines 255-262: an item is pushed when its geometry transcodes
KeepItem(item) == Transcodes(item)

\* a loop that ends at the first geometry that does not transcode
RECURSIVE BuildAreasBreak(_)
BuildAreasBreak(items) ==
  IF items = <<>> THEN Ok(<<>>)
  ELSE IF ~Unwraps(Head(items)) THEN Err("unwrap on None")
  ELSE IF ~KeepItem(Head(items)) THEN Ok(<<>>)
  ELSE LET rest == BuildAreasBreak(Tail(items))
       IN IF ~IsOk(rest) THEN rest
          ELSE Ok(<<Area(Head(items))>> \o rest.v)

\* a loop that skips a record lacking an attribute
RECURSIVE BuildAreasSkipMalformed(_)
BuildAreasSkipMalformed(items) ==
  IF items = <<>> THEN Ok(<<>>)
  ELSE LET rest == BuildAreasSkipMalformed(Tail(items))
       IN IF Unwraps(Head(items)) /\ KeepItem(Head(items))
          THEN Ok(<<Area(Head(items))>> \o rest.v)
          ELSE rest

RECURSIVE BuildAreas(_)
BuildAreas(items) ==
  IF items = <<>> THEN Ok(<<>>)
  ELSE IF ~Unwraps(Head(items)) THEN Err("unwrap on None")
  ELSE LET rest == BuildAreas(Tail(items))
       IN IF ~IsOk(rest) THEN rest
          ELSE IF KeepItem(Head(items))
               THEN Ok(<<Area(Head(items))>> \o rest.v)
               ELSE rest

(***************************************************************************)
(* query_dynamo: the per-county task and the join.                         *)
(***************************************************************************)
\* a key without the suffix
CountyBare(county) == county

\* line 68: format!("{} County", county)
CountyFull(county) == county \o " County"

\* lines 70-72: a freshly spawned task; sent logs the ExclusiveStartKey of
\* every request the task has issued, output is the task's JoinHandle value,
\* done_at records the task's place in the order of completion (0: running)
NewTask(county) ==
  [county_full |-> CountyFull(county), results |-> <<>>,
   last_evaluated_key |-> None, sent |-> <<>>, output |-> None,
   done_at |-> 0]

Finished(t) == IsSome(t.output)

\* a loop that stops after its first page, whatever the LastEvaluatedKey
AfterResponseOnePage(t, response) ==
  LET issued == [t EXCEPT !.sent = Append(@, t.last_evaluated_key)]
  IN IF ~IsOk(response)
     THEN [issued EXCEPT !.output = Some(Err(response.e))]
     ELSE LET results == IF IsSome(response.v.items)
                         THEN t.results \o response.v.items.v
                         ELSE t.results
          IN [issued EXCEPT !.results = results, !.output = Some(Ok(results))]

\* a loop that answers a store error by sending the same request again
AfterResponseRetry(t, response) ==
  LET issued == [t EXCEPT !.sent = Append(@, t.last_evaluated_key)]
  IN IF ~IsOk(response)
     THEN issued
     ELSE LET results == IF IsSome(response.v.items)
                         THEN t.results \o response.v.items.v
                         ELSE t.results
          IN IF IsSome(response.v.last_evaluated_key)
             THEN [issued EXCEPT !.results = results,
                     !.last_evaluated_key = response.v.last_evaluated_key]
             ELSE [issued EXCEPT !.results = results,
                     !.output = Some(Ok(results))]

\* a loop that reports a county without records as an error
AfterResponseEmptyIsError(t, response) ==
  LET issued == [t EXCEPT !.sent = Append(@, t.last_evaluated_key)]
  IN IF ~IsOk(response)
     THEN [issued EXCEPT !.output = Some(Err(response.e))]
     ELSE LET results == IF IsSome(response.v.items)
                         THEN t.results \o response.v.items.v
                         ELSE t.results
          IN IF IsSome(response.v.last_evaluated_key)
             THEN [issued EXCEPT !.results = results,
                     !.last_evaluated_key = response.v.last_evaluated_key]
             ELSE IF results = <<>>
             THEN [issued EXCEPT !.output =
                     Some(Err([code |-> "ResourceNotFoundException",
                               key |-> t.county_full, page |-> 0]))]
             ELSE [issued EXCEPT !.results = results,
                     !.output = Some(Ok(results))]

\* a loop that gives up paginating after MaxRows pages
AfterResponsePageLimit(t, response) ==
  LET issued == [t EXCEPT !.sent = Append(@, t.last_evaluated_key)]
  IN IF ~IsOk(response)
     THEN [issued EXCEPT !.output = Some(Err(response.e))]
     ELSE LET results == IF IsSome(response.v.items)
                         THEN t.results \o response.v.items.v
                         ELSE t.results
          IN IF IsSome(response.v.last_evaluated_key)
                /\ Len(issued.sent) < MaxRows
             THEN [issued EXCEPT !.results = results,
                     !.last_evaluated_key = response.v.last_evaluated_key]
             ELSE [issued EXCEPT !.results = results,
                     !.output = Some(Ok(results))]

\* lines 74-105: one turn of the loop, from building the request to the
\* handling of its response
AfterResponse(t, response) ==
  LET issued == [t EXCEPT !.sent = Append(@, t.last_evaluated_key)]
  IN IF ~IsOk(response)
     THEN [issued EXCEPT !.output = Some(Err(response.e))]
     ELSE LET results == IF IsSome(response.v.items)
                         THEN t.results \o response.v.items.v
                         ELSE t.results
          IN IF IsSome(response.v.last_evaluated_key)
             THEN [issued EXCEPT !.results = results,
                     !.last_evaluated_key = response.v.last_evaluated_key]
             ELSE [issued EXCEPT !.results = results,
                     !.output = Some(Ok(results))]

\* a join that resolves with the first task to finish
JoinFirst(ts) == \E i \in 1..Len(ts) : Finished(ts[i])

\* line 113: join_all resolves once every task has finished
JoinReady(ts) == \A i \in 1..Len(ts) : Finished(ts[i])

\* the outputs in the order in which the tasks completed
OutputsByCompletion(ts) ==
  LET done == SelectSeq(ts, Finished)
  IN [k \in 1..Len(done) |->
        done[CHOOSE i \in 1..Len(done) : done[i].done_at = k].output.v]

\* the outputs join_all yields, in task order
Outputs(ts) ==
  LET done == SelectSeq(ts, Finished)
  IN [i \in 1..Len(done) |-> done[i].output.v]

\* a merge that drops a failed task's output and keeps the others' records
RECURSIVE CollectPartial(_, _)
CollectPartial(outs, all_results) ==
  IF outs = <<>> THEN Ok(all_results)
  ELSE IF ~IsOk(Head(outs)) THEN CollectPartial(Tail(outs), all_results)
  ELSE CollectPartial(Tail(outs), all_results \o Head(outs).v)

\* a merge that goes through every output and returns the last error met
RECURSIVE CollectLastError(_, _)
CollectLastError(outs, all_results) ==
  IF outs = <<>> THEN Ok(all_results)
  ELSE IF ~IsOk(Head(outs))
  THEN LET rest == CollectLastError(Tail(outs), all_results)
       IN IF IsOk(rest) THEN Head(outs) ELSE rest
  ELSE CollectLastError(Tail(outs), all_results \o Head(outs).v)

\* lines 111-118: the loop over the outputs; `?` returns the first error
RECURSIVE Collect(_, _)
Collect(outs, all_results) ==
  IF outs = <<>> THEN Ok(all_results)
  ELSE IF ~IsOk(Head(outs)) THEN Head(outs)
  ELSE Collect(Tail(outs), all_results \o Head(outs).v)

(***************************************************************************)
(* State.                                                                  *)
(***************************************************************************)
VARIABLES
  dynamo,             \* the DynamoDB table (a member of Tables)
  s3obj,              \* the S3 object texas_county_neighbors.json
  clients,            \* the requests that arrive in this behaviour
  pc,                 \* where each request's handler stands
  address,            \* form_data.address
  center,             \* (center_lat, center_lon)
  target_county,
  counties_to_query,
  tasks,              \* the tasks query_dynamo has spawned, in spawn order
  items,              \* what query_dynamo returned
  response,           \* the handler's return value, once it has returned
  geocoder_calls,     \* number of geocoding requests issued for the request
  s3_gets,            \* number of get_object requests issued for the request
  trail               \* the stages the request has entered, in order

vars == <<dynamo, s3obj, clients, pc, address, center, target_county,
          counties_to_query, tasks, items, response, geocoder_calls, s3_gets,
          trail>>

env == <<dynamo, s3obj, clients>>

Respond(status, body) == Some([status |-> status, body |-> body])

\* the status each failure is mapped to
GeocodingErrorStatus == INTERNAL_SERVER_ERROR    \* lines 155-158
NoResultStatus == NOT_FOUND                      \* line 282
NoCountyStatus == NOT_FOUND                      \* line 178
NeighborMapErrorStatus == INTERNAL_SERVER_ERROR  \* lines 190-193
QueryErrorAsNotFound == NOT_FOUND                \* a store error answered 404
QueryErrorStatus == INTERNAL_SERVER_ERROR        \* lines 212-215

\* a response assembled without the emptiness check
AssembleUnchecked(c, areas) ==
  Respond(OK, Some([center |-> c, areas |-> areas]))

\* geocode, lines 265-280: not-found for an empty list, else the response
AssembleResponse(c, areas) ==
  IF areas = <<>> THEN Respond(NOT_FOUND, None)
  ELSE Respond(OK, Some([center |-> c, areas |-> areas]))

\* the stages of one request, in the order the handler runs them
StageOrder ==
  <<"geocoder_call", "county_resolution", "neighbor_map_load",
    "county_set_build", "store_fan_out", "geometry_transcoding",
    "emptiness_check", "response">>

InitRequests ==
  /\ pc = [r \in Reqs |-> "idle"]
  /\ address = [r \in Reqs |-> ""]
  /\ center = [r \in Reqs |-> None]
  /\ target_county = [r \in Reqs |-> None]
  /\ counties_to_query = [r \in Reqs |-> <<>>]
  /\ tasks = [r \in Reqs |-> <<>>]
  /\ items = [r \in Reqs |-> None]
  /\ response = [r \in Reqs |-> None]
  /\ geocoder_calls = [r \in Reqs |-> 0]
  /\ s3_gets = [r \in Reqs |-> 0]
  /\ trail = [r \in Reqs |-> <<>>]

Init ==
  /\ dynamo \in Tables
  /\ s3obj \in S3Objects
  /\ clients = {"r1"}
  /\ InitRequests

\* POST /geocode arrives with its form (main.rs, the /geocode route)
Receive(r, a) ==
  /\ r \in clients
  /\ pc[r] = "idle"
  /\ pc' = [pc EXCEPT ![r] = "geocode"]
  /\ address' = [address EXCEPT ![r] = a]
  /\ UNCHANGED <<env, center, target_county, counties_to_query, tasks, items,
                 response, geocoder_calls, s3_gets, trail>>

\* a handler that keeps the center in one place for all requests
GeocodeShared(r) ==
  /\ pc[r] = "geocode"
  /\ geocoder_calls' = [geocoder_calls EXCEPT ![r] = @ + 1]
  /\ LET geocode_res == GeocodingExecute(address[r])
     IN IF ~IsOk(geocode_res)
        THEN /\ response' = [response EXCEPT ![r] = Respond(GeocodingErrorStatus, None)]
             /\ pc' = [pc EXCEPT ![r] = "done"]
             /\ trail' = [trail EXCEPT ![r] = @ \o <<"geocoder_call">>]
             /\ UNCHANGED <<center, target_county>>
        ELSE IF geocode_res.v = <<>>
        THEN /\ response' = [response EXCEPT ![r] = Respond(NoResultStatus, None)]
             /\ pc' = [pc EXCEPT ![r] = "done"]
             /\ trail' = [trail EXCEPT ![r] = @ \o <<"geocoder_call">>]
             /\ UNCHANGED <<center, target_county>>
        ELSE LET first == Head(geocode_res.v)
                 county == TargetCounty(first)
             IN /\ center' = [q \in Reqs |->
                                Some([lat |-> first.location.lat,
                                      lon |-> first.location.lng])]
                /\ target_county' = [target_county EXCEPT ![r] = county]
                /\ trail' = [trail EXCEPT ![r] =
                               @ \o <<"geocoder_call", "county_resolution">>]
                /\ IF IsSome(county)
                   THEN /\ pc' = [pc EXCEPT ![r] = "load_neighbor_map"]
                        /\ UNCHANGED response
                   ELSE /\ response' = [response EXCEPT ![r] = Respond(NoCountyStatus, None)]
                        /\ pc' = [pc EXCEPT ![r] = "done"]
  /\ UNCHANGED <<env, address, counties_to_query, tasks, items, s3_gets>>

\* geocode, lines 147-179: the geocoding call and the county resolution
Geocode(r) ==
  /\ pc[r] = "geocode"
  /\ geocoder_calls' = [geocoder_calls EXCEPT ![r] = @ + 1]
  /\ LET geocode_res == GeocodingExecute(address[r])
     IN IF ~IsOk(geocode_res)
        THEN /\ response' = [response EXCEPT ![r] = Respond(GeocodingErrorStatus, None)]
             /\ pc' = [pc EXCEPT ![r] = "done"]
             /\ trail' = [trail EXCEPT ![r] = @ \o <<"geocoder_call">>]
             /\ UNCHANGED <<center, target_county>>
        ELSE IF geocode_res.v = <<>>
        THEN /\ response' = [response EXCEPT ![r] = Respond(NoResultStatus, None)]
             /\ pc' = [pc EXCEPT ![r] = "done"]
             /\ trail' = [trail EXCEPT ![r] = @ \o <<"geocoder_call">>]
             /\ UNCHANGED <<center, target_county>>
        ELSE LET first == Head(geocode_res.v)
                 county == TargetCounty(first)
             IN /\ center' = [center EXCEPT ![r] =
                                Some([lat |-> first.location.lat,
                                      lon |-> first.location.lng])]
                /\ target_county' = [target_county EXCEPT ![r] = county]
                /\ trail' = [trail EXCEPT ![r] =
                               @ \o <<"geocoder_call", "county_resolution">>]
                /\ IF IsSome(county)
                   THEN /\ pc' = [pc EXCEPT ![r] = "load_neighbor_map"]
                        /\ UNCHANGED response
                   ELSE /\ response' = [response EXCEPT ![r] = Respond(NoCountyStatus, None)]
                        /\ pc' = [pc EXCEPT ![r] = "done"]
  /\ UNCHANGED <<env, address, counties_to_query, tasks, items, s3_gets>>

\* geocode, lines 181-199: load the neighbor map and build the county list
LoadNeighborMap(r) ==
  /\ pc[r] = "load_neighbor_map"
  /\ s3_gets' = [s3_gets EXCEPT ![r] = @ + 1]
  /\ LET neighbors_map == load_neighbor_map_from_s3(s3obj)
     IN IF ~IsOk(neighbors_map)
        THEN /\ response' = [response EXCEPT ![r] = Respond(NeighborMapErrorStatus, None)]
             /\ pc' = [pc EXCEPT ![r] = "done"]
             /\ trail' = [trail EXCEPT ![r] = @ \o <<"neighbor_map_load">>]
             /\ UNCHANGED counties_to_query
        ELSE /\ counties_to_query' = [counties_to_query EXCEPT ![r] =
                  CountiesToQuery(target_county[r].v, neighbors_map.v)]
             /\ pc' = [pc EXCEPT ![r] = "query_dynamo"]
             /\ trail' = [trail EXCEPT ![r] =
                            @ \o <<"neighbor_map_load", "county_set_build">>]
             /\ UNCHANGED response
  /\ UNCHANGED <<env, address, center, target_county, tasks, items, geocoder_calls>>

\* query_dynamo, lines 60-109: one iteration of the spawning loop
SpawnTask(r) ==
  /\ pc[r] = "query_dynamo"
  /\ LET n == Len(tasks[r]) + 1
     IN /\ tasks' = [tasks EXCEPT ![r] = Append(@, NewTask(counties_to_query[r][n]))]
        /\ pc' = [pc EXCEPT ![r] =
                    IF n = Len(counties_to_query[r]) THEN "join_all" ELSE @]
        /\ trail' = [trail EXCEPT ![r] =
                       IF n = 1 THEN @ \o <<"store_fan_out">> ELSE @]
  /\ UNCHANGED <<env, address, center, target_county, counties_to_query, items,
                 response, geocoder_calls, s3_gets>>

\* query_dynamo, lines 74-105: a spawned task sends one Query and handles the
\* response; the model follows a task for at most MaxSent requests
TaskStep(r, i) ==
  /\ i \in 1..Len(tasks[r])
  /\ ~Finished(tasks[r][i])
  /\ Len(tasks[r][i].sent) < MaxSent
  /\ LET t == tasks[r][i]
         resp == Query(dynamo, t.county_full, t.last_evaluated_key)
         after == AfterResponse(t, resp)
         finished == {j \in 1..Len(tasks[r]) : Finished(tasks[r][j])}
     IN tasks' = [tasks EXCEPT ![r][i] =
                    IF Finished(after)
                    THEN [after EXCEPT !.done_at = Cardinality(finished) + 1]
                    ELSE after]
  /\ UNCHANGED <<env, pc, address, center, target_county, counties_to_query,
                 items, response, geocoder_calls, s3_gets, trail>>

\* query_dynamo, lines 111-118: join the tasks and merge their outputs
JoinAll(r) ==
  /\ pc[r] = "join_all"
  /\ JoinReady(tasks[r])
  /\ items' = [items EXCEPT ![r] = Some(Collect(Outputs(tasks[r]), <<>>))]
  /\ pc' = [pc EXCEPT ![r] = "assemble"]
  /\ UNCHANGED <<env, address, center, target_county, counties_to_query, tasks,
                 response, geocoder_calls, s3_gets, trail>>

\* geocode, lines 210-280: map the error, build the areas, respond
Assemble(r) ==
  /\ pc[r] = "assemble"
  /\ IF ~IsOk(items[r].v)
     THEN /\ response' = [response EXCEPT ![r] = Respond(QueryErrorStatus, None)]
          /\ pc' = [pc EXCEPT ![r] = "done"]
          /\ UNCHANGED trail
     ELSE LET areas == BuildAreas(items[r].v.v)
          IN IF ~IsOk(areas)
             THEN /\ pc' = [pc EXCEPT ![r] = "panicked"]
                  /\ trail' = [trail EXCEPT ![r] = @ \o <<"geometry_transcoding">>]
                  /\ UNCHANGED response
             ELSE /\ response' = [response EXCEPT ![r] =
                                    AssembleResponse(center[r].v, areas.v)]
                  /\ pc' = [pc EXCEPT ![r] = "done"]
                  /\ trail' = [trail EXCEPT ![r] =
                       @ \o <<"geometry_transcoding", "emptiness_check">>
                         \o (IF areas.v = <<>> THEN <<>> ELSE <<"response">>)]
  /\ UNCHANGED <<env, address, center, target_county, counties_to_query, tasks,
                 items, geocoder_calls, s3_gets>>

Next ==
  \/ \E r \in Reqs, a \in Addresses : Receive(r, a)
  \/ \E r \in Reqs : Geocode(r)
  \/ \E r \in Reqs : LoadNeighborMap(r)
  \/ \E r \in Reqs : SpawnTask(r)
  \/ \E r \in Reqs : \E i \in 1..Len(tasks[r]) : TaskStep(r, i)
  \/ \E r \in Reqs : JoinAll(r)
  \/ \E r \in Reqs : Assemble(r)

Spec == Init /\ [][Next]_vars

\* the same handler against tables holding rows of every kind
InitRecords ==
  /\ dynamo \in RecordTables
  /\ s3obj \in S3Objects
  /\ clients = {"r1"}
  /\ InitRequests

SpecRecords == InitRecords /\ [][Next]_vars

\* the stores two concurrent requests are run against
PairTables ==
  [rows : [Counties -> {0, MaxRows}], failAt : [Counties -> {0, 1}],
   quality : {"mixed", "corrupt"}, pageSize : {MaxPageSize}]

PairObjects ==
  {o \in S3Objects :
     o.tag = "Bytes" /\ IsOk(o.json) => Len(o.json.v["Travis"]) = 1}

\* main.rs, the /geocode route: axum runs the handler once per request, on
\* its own task, so two requests are in flight together
InitPair ==
  /\ dynamo \in PairTables
  /\ s3obj \in PairObjects
  /\ clients = Reqs
  /\ InitRequests

SpecPair == InitPair /\ [][Next]_vars

\* the handler against stores that may paginate without end
LiveObjects ==
  {o \in PairObjects : o.tag = "Bytes" => IsOk(o.json)}

LiveClients == {"r1"}

InitLive ==
  /\ dynamo \in LiveTables
  /\ s3obj \in LiveObjects
  /\ clients = LiveClients
  /\ InitRequests

\* the handler's own steps: at most one of them is enabled at a time
HandlerStep(r) ==
  \/ Geocode(r) \/ LoadNeighborMap(r) \/ SpawnTask(r) \/ JoinAll(r)
  \/ Assemble(r)

\* tokio polls every task that is ready: the handler and each spawned task
\* keep taking their steps; no client is bound to send a request
Fairness ==
  \A r \in LiveClients :
    /\ WF_vars(HandlerStep(r))
    /\ \A i \in 1..(MaxNeighbors + 1) : WF_vars(TaskStep(r, i))

LiveSpec == InitLive /\ [][Next]_vars /\ Fairness

(***************************************************************************)
(* Properties.                                                             *)
(***************************************************************************)
RECURSIVE Concat(_)
Concat(ss) == IF ss = <<>> THEN <<>> ELSE Head(ss) \o Concat(Tail(ss))

Status(r) == response[r].v.status
Responded(r) == pc[r] = "done" /\ IsSome(response[r])
TaskIds(r) == 1..Len(tasks[r])
FailedTasks(r) ==
  {i \in TaskIds(r) : IsSome(tasks[r][i].output) /\ ~IsOk(tasks[r][i].output.v)}
SucceededTasks(r) ==
  {i \in TaskIds(r) : IsSome(tasks[r][i].output) /\ IsOk(tasks[r][i].output.v)}
FanOutReturned(r) == IsSome(items[r])
FanOutOk(r) == IsSome(items[r]) /\ IsOk(items[r].v)

\* C1: when a per-county sub-query has failed, query_dynamo returns the error
\* of a failed sub-query and no records: its value is not a record list, and
\* the request answers 500 without a body, whatever the sibling sub-queries
\* had collected.
C1_FailFast ==
  \A r \in Reqs :
    (FanOutReturned(r) /\ FailedTasks(r) # {}) =>
      /\ ~IsOk(items[r].v)
      /\ \E i \in FailedTasks(r) : items[r].v = tasks[r][i].output.v
      /\ Responded(r) => response[r] = Respond(INTERNAL_SERVER_ERROR, None)

C1_Witness ==
  \E r \in Reqs :
    /\ Responded(r)
    /\ FailedTasks(r) # {}
    /\ \E j \in SucceededTasks(r) : tasks[r][j].output.v.v # <<>>
    /\ \E i \in FailedTasks(r) : tasks[r][i].results # <<>>

\* C2: a per-county task that ends without a store error has issued exactly
\* as many requests as the store holds pages for its key; the first request
\* has no start key, every later one carries the LastEvaluatedKey of the
\* response before it, and the task's result is the pages' records
\* concatenated in page order.
C2_Pagination ==
  \A r \in Reqs : \A i \in TaskIds(r) :
    LET t == tasks[r][i]
        key == counties_to_query[r][i] \o " County"
        page(j) == Query(dynamo, key, t.sent[j])
    IN /\ \A j \in 1..Len(t.sent) :
            t.sent[j] = IF j = 1 THEN None
                        ELSE page(j - 1).v.last_evaluated_key
       /\ i \in SucceededTasks(r) =>
            /\ Len(t.sent) = NumPages(dynamo, key)
            /\ t.output.v.v =
                 Concat([j \in 1..Len(t.sent) |-> page(j).v.items.v])

C2_Witness ==
  \E r \in Reqs : \E i \in SucceededTasks(r) :
    /\ Len(tasks[r][i].sent) = 3
    /\ Len(tasks[r][i].output.v.v) = 3

\* C3: query_dynamo has returned, and the response assembly has started,
\* only when a task was spawned for every county and every task has finished.
C3_JoinWaitsForAll ==
  \A r \in Reqs :
    (FanOutReturned(r) \/ pc[r] \in {"assemble", "panicked"}) =>
      /\ Len(tasks[r]) = Len(counties_to_query[r])
      /\ \A i \in TaskIds(r) : IsSome(tasks[r][i].output)

C3_Witness ==
  \E r \in Reqs :
    /\ FanOutReturned(r)
    /\ Len(tasks[r]) >= 2
    /\ \E i, j \in TaskIds(r) : Len(tasks[r][i].sent) > Len(tasks[r][j].sent)

\* the returned items whose geometry transcodes
Transcodable(its) ==
  SelectSeq(its, LAMBDA it : Unwraps(it) /\ Transcodes(it))

\* C4: no 200 response has an empty areas list; a request whose fan-out
\* returned no record, or only records whose geometry does not transcode,
\* answers 404.
C4_NeverEmptyAreas ==
  \A r \in Reqs :
    /\ (Responded(r) /\ Status(r) = 200) =>
          /\ IsSome(response[r].v.body)
          /\ response[r].v.body.v.areas # <<>>
    /\ (Responded(r) /\ FanOutOk(r) /\ Transcodable(items[r].v.v) = <<>>) =>
          response[r] = Respond(404, None)

C4_Witness ==
  \E r \in Reqs :
    /\ Responded(r) /\ FanOutOk(r)
    /\ items[r].v.v # <<>>
    /\ Transcodable(items[r].v.v) = <<>>
    /\ Status(r) = 404

\* C5: the areas of a 200 response are exactly the returned records whose
\* geometry transcodes, in the order returned; a record whose geometry does
\* not transcode is left out and does not fail the request, which answers
\* 200 as soon as one record transcodes.
C5_OnlyTranscodedAreas ==
  \A r \in Reqs :
    (Responded(r) /\ FanOutOk(r)) =>
      LET good == Transcodable(items[r].v.v)
      IN /\ good # <<>> =>
              /\ Status(r) = 200
              /\ response[r].v.body.v.areas =
                   [k \in 1..Len(good) |-> Area(good[k])]
         /\ Status(r) = 200 =>
              \A a \in 1..Len(response[r].v.body.v.areas) :
                 \E k \in 1..Len(items[r].v.v) :
                    /\ IsSome(wkt_to_geojson(items[r].v.v[k].Geometry.s))
                    /\ response[r].v.body.v.areas[a].geo_id = items[r].v.v[k].GEOID.s
                    /\ response[r].v.body.v.areas[a].geometry =
                         wkt_to_geojson(items[r].v.v[k].Geometry.s).v

C5_Witness ==
  \E r \in Reqs :
    /\ Responded(r) /\ FanOutOk(r) /\ Status(r) = 200
    /\ Len(Transcodable(items[r].v.v)) < Len(items[r].v.v)
    /\ \E k \in 1..Len(items[r].v.v) :
          /\ ~Transcodes(items[r].v.v[k])
          /\ k < Len(items[r].v.v)

(***************************************************************************)
(* What happened to a request, read from the collaborators and the calls   *)
(* the request has issued.                                                 *)
(***************************************************************************)
Ended(r) == pc[r] \in {"done", "panicked"}
GeocoderCalled(r) == geocoder_calls[r] > 0
GeocoderErrored(r) == GeocoderCalled(r) /\ GeocodingExecute(address[r]).tag = "Err"
GeocoderResults(r) == GeocodingExecute(address[r]).v
ZeroResults(r) ==
  GeocoderCalled(r) /\ ~GeocoderErrored(r) /\ Len(GeocoderResults(r)) = 0
NoCountyTag(r) ==
  /\ GeocoderCalled(r) /\ ~GeocoderErrored(r) /\ Len(GeocoderResults(r)) > 0
  /\ LET comps == GeocoderResults(r)[1].address_components
     IN \A k \in 1..Len(comps) : \A j \in 1..Len(comps[k].types) :
           comps[k].types[j] # "administrative_area_level_2"
MapUsable == s3obj.tag = "Bytes" /\ s3obj.json.tag = "Ok"
MapFailed(r) == s3_gets[r] > 0 /\ ~MapUsable
StoreErrored(r) == FailedTasks(r) # {}
WellFormed(it) ==
  \A k \in {"GEOID", "County", "Geometry"} : k \in DOMAIN it /\ it[k].t = "S"
AreasEmpty(r) ==
  /\ FanOutOk(r)
  /\ \A k \in 1..Len(items[r].v.v) :
        WellFormed(items[r].v.v[k])
        /\ wkt_to_geojson(items[r].v.v[k].Geometry.s) = None
MalformedItem(r) ==
  FanOutOk(r) /\ \E k \in 1..Len(items[r].v.v) : ~WellFormed(items[r].v.v[k])

StatusRule(r) ==
  /\ IsSome(response[r])
  /\ Status(r) \in {200, 404, 500}
  /\ Status(r) = 404 <=> (ZeroResults(r) \/ NoCountyTag(r) \/ AreasEmpty(r))
  /\ Status(r) = 500 <=> (GeocoderErrored(r) \/ MapFailed(r) \/ StoreErrored(r))

\* C6 as stated: every request that has ended carries exactly one of 200,
\* 404, 500, each exactly under its conditions.
C6_EveryRequestHasStatus ==
  \A r \in Reqs : Ended(r) => StatusRule(r)

\* C6: every request whose handler returns ends with exactly one of 200, 404
\* and 500: 404 exactly when the geocoder returned no result, no component of
\* the first result carries the administrative-area-level-2 tag, or the
\* areas list is empty; 500 exactly when the geocoder call, the neighbor-map
\* load or a store query failed; 200 otherwise.  A request ends without any
\* status exactly when the fan-out returned a record lacking one of the
\* string attributes GEOID, County, Geometry: the handler panics.
C6_StatusUnlessPanic ==
  \A r \in Reqs :
    /\ pc[r] = "done" => StatusRule(r)
    /\ pc[r] = "panicked" => (response[r] = None /\ MalformedItem(r))
    /\ (Ended(r) /\ MalformedItem(r)) => pc[r] = "panicked"

C6_Witness ==
  \E r \in Reqs :
    /\ pc[r] = "done" /\ StoreErrored(r) /\ Status(r) = 500
    /\ SucceededTasks(r) # {}

\* C7: the county list handed to the fan-out is the target county followed
\* by the neighbor list of the target's entry in the neighbor map, and the
\* target alone when the map has no entry for it; in that case the request
\* answers 200 when the store returns the target's records without error,
\* all well formed and at least one with a geometry that transcodes.
C7_CountySet ==
  \A r \in Reqs :
    (pc[r] \in {"query_dynamo", "join_all", "assemble", "panicked"}
       \/ tasks[r] # <<>>) =>
      LET target == target_county[r].v
          map == s3obj.json.v
          rows == CountyIndex(dynamo, target \o " County")
      IN /\ counties_to_query[r] # <<>>
         /\ Head(counties_to_query[r]) = target
         /\ Tail(counties_to_query[r]) =
              IF target \in DOMAIN map THEN map[target] ELSE <<>>
         /\ (/\ target \notin DOMAIN map
             /\ Ended(r) /\ ~StoreErrored(r)
             /\ \A k \in 1..Len(rows) : WellFormed(rows[k])
             /\ \E k \in 1..Len(rows) :
                   wkt_to_geojson(rows[k].Geometry.s) # None)
            => (IsSome(response[r]) /\ Status(r) = 200)

C7_Witness ==
  \E r \in Reqs :
    /\ Responded(r) /\ Status(r) = 200
    /\ MapUsable /\ target_county[r].v \notin DOMAIN s3obj.json.v
    /\ counties_to_query[r] = <<target_county[r].v>>

IsPrefix(a, b) == Len(a) <= Len(b) /\ a = SubSeq(b, 1, Len(a))

RequestStep(r) ==
  \/ Geocode(r) \/ LoadNeighborMap(r) \/ SpawnTask(r) \/ JoinAll(r)
  \/ Assemble(r) \/ \E i \in 1..Len(tasks[r]) : TaskStep(r, i)

\* C8: a request enters its stages in the one fixed order; the blob is
\* fetched only after a geocoding call that succeeded and a county that was
\* resolved, a store task exists only after the neighbor map was loaded, the
\* items are transcoded only after a fan-out that succeeded, and a request
\* that has ended takes no further step.
C8_StagesInOrder ==
  \A r \in Reqs :
    /\ IsPrefix(trail[r], StageOrder)
    /\ s3_gets[r] > 0 =>
         /\ geocoder_calls[r] = 1 /\ ~GeocoderErrored(r)
         /\ ~ZeroResults(r) /\ ~NoCountyTag(r)
    /\ tasks[r] # <<>> => (s3_gets[r] = 1 /\ MapUsable)
    /\ (\E k \in 1..Len(trail[r]) : trail[r][k] = "geometry_transcoding") =>
         (FanOutOk(r) /\ ~StoreErrored(r))
    /\ Ended(r) => ~ENABLED RequestStep(r)

C8_Witness ==
  \E r \in Reqs :
    /\ Responded(r) /\ Status(r) = 500 /\ MapFailed(r)
    /\ tasks[r] = <<>> /\ trail[r] = SubSeq(StageOrder, 1, 3)

NoRepeat(q) == \A a, b \in 1..Len(q) : q[a] = q[b] => a = b

\* C9: a request calls the geocoder at most once and fetches the blob at
\* most once; a task never sends the same page request twice, and a request
\* the store answered with an error is the last the task sent; that error
\* is the task's output and the request answers 500.
C9_NoRetry ==
  \A r \in Reqs :
    /\ geocoder_calls[r] <= 1
    /\ s3_gets[r] <= 1
    /\ \A i \in TaskIds(r) :
         LET t == tasks[r][i]
             answer(j) == Query(dynamo, t.county_full, t.sent[j])
         IN /\ NoRepeat(t.sent)
            /\ \A j \in 1..Len(t.sent) :
                 answer(j).tag = "Err" =>
                   /\ j = Len(t.sent)
                   /\ t.output = Some(answer(j))
    /\ (Responded(r) /\ StoreErrored(r)) => Status(r) = 500

C9_Witness ==
  \E r \in Reqs : \E i \in FailedTasks(r) :
    /\ Responded(r)
    /\ Len(tasks[r][i].sent) = 2
    /\ \E j \in SucceededTasks(r) : Len(tasks[r][j].sent) = 3

\* C10: query_dynamo spawns one task per entry of the county list, in list
\* order and duplicates included, never more; task i queries the key made of
\* entry i and the suffix " County", so that what it collects are the rows
\* stored under that key.
C10_OneTaskPerCounty ==
  \A r \in Reqs :
    /\ Len(tasks[r]) <= Len(counties_to_query[r])
    /\ (pc[r] \in {"join_all", "assemble", "panicked"} \/ FanOutReturned(r)) =>
          Len(tasks[r]) = Len(counties_to_query[r])
    /\ \A i \in TaskIds(r) :
         LET key == counties_to_query[r][i] \o " County"
             stored == CountyIndex(dynamo, key)
         IN /\ tasks[r][i].county_full = key
            /\ IsPrefix(tasks[r][i].results, stored)
            /\ \A k \in 1..Len(tasks[r][i].results) :
                  tasks[r][i].results[k].County.s = key
            /\ i \in SucceededTasks(r) => tasks[r][i].output.v.v = stored

C10_Witness ==
  \E r \in Reqs :
    /\ pc[r] = "join_all"
    /\ Len(tasks[r]) = 3
    /\ counties_to_query[r][1] = counties_to_query[r][3]
    /\ \A i \in TaskIds(r) : i \in SucceededTasks(r) /\ tasks[r][i].results # <<>>

\* s without its suffix suf, when s ends with suf
StripSuffix(s, suf) ==
  IF Len(s) >= Len(suf) /\ SubSeq(s, Len(s) - Len(suf) + 1, Len(s)) = suf
  THEN SubSeq(s, 1, Len(s) - Len(suf)) ELSE s

CountyResolved(r) ==
  GeocoderCalled(r) /\ ~GeocoderErrored(r) /\ Len(GeocoderResults(r)) > 0

\* the components of the first result that carry the county tag
TaggedComponents(r) ==
  LET comps == GeocoderResults(r)[1].address_components
  IN SelectSeq(comps, LAMBDA c :
       \E j \in 1..Len(c.types) : c.types[j] = "administrative_area_level_2")

\* C11: the county identifier of a request is the long name of the first
\* component of the first result carrying the administrative-area-level-2
\* tag, without its trailing " County" and otherwise unchanged; later tagged
\* components are ignored; without a tagged component the request answers
\* 404.
C11_TrailingSuffixStripped ==
  \A r \in Reqs :
    CountyResolved(r) =>
      IF TaggedComponents(r) = <<>>
      THEN target_county[r] = None /\ Responded(r) /\ Status(r) = 404
      ELSE target_county[r] =
             Some(StripSuffix(TaggedComponents(r)[1].long_name, " County"))

\* the key the fan-out queries for entry i of the county list
KeyOf(r, i) == counties_to_query[r][i] \o " County"

\* the store answers one of the page requests for the key with an error
StoreFails(key) ==
  \E c \in Counties :
    /\ c \o " County" = key
    /\ dynamo.failAt[c] \in 1..NumPages(dynamo, key)

\* C12: a task whose key matches no row ends with an empty record list and
\* not with an error; when the store fails no request, query_dynamo over a
\* county list holding such counties returns Ok with exactly the rows of
\* the other counties.
C12_EmptyCountyIsNoError ==
  \A r \in Reqs :
    /\ \A i \in TaskIds(r) :
         (/\ IsSome(tasks[r][i].output)
          /\ CountyIndex(dynamo, KeyOf(r, i)) = <<>>
          /\ ~StoreFails(KeyOf(r, i)))
         => tasks[r][i].output = Some(Ok(<<>>))
    /\ (/\ FanOutReturned(r)
        /\ \A i \in TaskIds(r) : ~StoreFails(KeyOf(r, i))
        /\ \E i \in TaskIds(r) : CountyIndex(dynamo, KeyOf(r, i)) = <<>>)
       => items[r] =
            Some(Ok(Concat([i \in TaskIds(r) |->
                              CountyIndex(dynamo, KeyOf(r, i))])))

C12_Witness ==
  \E r \in Reqs :
    /\ FanOutOk(r)
    /\ \E i \in TaskIds(r) : tasks[r][i].output = Some(Ok(<<>>))
    /\ \E i \in TaskIds(r) : Len(tasks[r][i].results) >= 2
    /\ items[r].v.v # <<>>

C12_WitnessAllEmpty ==
  \E r \in Reqs :
    /\ FanOutOk(r) /\ Len(tasks[r]) >= 2 /\ items[r].v.v = <<>>

\* the numeric attribute is there and is a number
HasPercentile(it) ==
  "WeightedCrimePercentile" \in DOMAIN it
  /\ it["WeightedCrimePercentile"].t = "N"

Returned(r) == items[r].v.v

\* C13 as stated: a returned record lacking one of GEOID, County, Geometry,
\* WeightedCrimePercentile, or holding it with the wrong type, crashes the
\* handler.
C13_AnyMissingFieldCrashes ==
  \A r \in Reqs :
    (Ended(r) /\ FanOutOk(r)
       /\ \E k \in 1..Len(Returned(r)) :
             ~WellFormed(Returned(r)[k]) \/ ~HasPercentile(Returned(r)[k]))
    => (pc[r] = "panicked" /\ response[r] = None)

\* C13: the handler crashes, without a response, exactly when a returned
\* record lacks one of the string attributes GEOID, County, Geometry or holds
\* it with another type.  A record whose WeightedCrimePercentile is missing
\* or is no number does not crash it: the record is kept with percentile 0.
C13_MissingStringFieldCrashes ==
  \A r \in Reqs :
    (Ended(r) /\ FanOutOk(r)) =>
      /\ pc[r] = "panicked" <=>
           \E k \in 1..Len(Returned(r)) : ~WellFormed(Returned(r)[k])
      /\ pc[r] = "panicked" => response[r] = None
      /\ pc[r] = "done" =>
           \A k \in 1..Len(Returned(r)) :
              (/\ ~HasPercentile(Returned(r)[k])
               /\ wkt_to_geojson(Returned(r)[k].Geometry.s) # None)
              => /\ Status(r) = 200
                 /\ \E a \in 1..Len(response[r].v.body.v.areas) :
                      /\ response[r].v.body.v.areas[a].geo_id =
                           Returned(r)[k].GEOID.s
                      /\ response[r].v.body.v.areas[a].crime_percentile = 0

C13_Witness ==
  \E r \in Reqs :
    /\ pc[r] = "panicked"
    /\ Len(Returned(r)) >= 2
    /\ \E k \in 1..Len(Returned(r)) :
          k > 1 /\ "Geometry" \notin DOMAIN Returned(r)[k]

C13_WitnessPercentile ==
  \E r \in Reqs :
    /\ Responded(r) /\ FanOutOk(r) /\ Status(r) = 200
    /\ \E k \in 1..Len(Returned(r)) : ~HasPercentile(Returned(r)[k])

Areas(r) == response[r].v.body.v.areas

FirstResult(r) == GeocoderResults(r)[1]

\* the entry the response holds for a record, with the percentile under key
EntryOf(it, key) ==
  (key :> ParseF64(it.WeightedCrimePercentile.n).v)
    @@ [geo_id |-> it.GEOID.s, county |-> it.County.s,
        geometry |-> wkt_to_geojson(it.Geometry.s).v]

SuccessShape(r, key) ==
  LET good == Transcodable(Returned(r))
  IN /\ response[r].v.body.v.center =
          [lat |-> FirstResult(r).location.lat,
           lon |-> FirstResult(r).location.lng]
     /\ Areas(r) = [k \in 1..Len(good) |-> EntryOf(good[k], key)]
     /\ \A i \in TaskIds(r) :
          Transcodable(CountyIndex(dynamo, KeyOf(r, i))) # <<>> =>
             \E a \in 1..Len(Areas(r)) : Areas(r)[a].county = KeyOf(r, i)

RECURSIVE RunTask(_, _)
RunTask(d, t) ==
  IF Finished(t) THEN t.output.v
  ELSE RunTask(d, AfterResponse(t, Query(d, t.county_full, t.last_evaluated_key)))

Outcome(end, resp) == [pc |-> end, response |-> resp]

RunAlone(a, obj, d) ==
  LET g == GeocodingExecute(a)
  IN IF ~IsOk(g) THEN Outcome("done", Respond(500, None))
     ELSE IF g.v = <<>> THEN Outcome("done", Respond(404, None))
     ELSE LET county == TargetCounty(Head(g.v))
              map == load_neighbor_map_from_s3(obj)
          IN IF ~IsSome(county) THEN Outcome("done", Respond(404, None))
             ELSE IF ~IsOk(map) THEN Outcome("done", Respond(500, None))
             ELSE LET cs == CountiesToQuery(county.v, map.v)
                      outs == [i \in 1..Len(cs) |-> RunTask(d, NewTask(cs[i]))]
                      its == Collect(outs, <<>>)
                  IN IF ~IsOk(its) THEN Outcome("done", Respond(500, None))
                     ELSE IF ~IsOk(BuildAreas(its.v))
                     THEN Outcome("panicked", None)
                     ELSE Outcome("done",
                            AssembleResponse(
                              [lat |-> Head(g.v).location.lat,
                               lon |-> Head(g.v).location.lng],
                              BuildAreas(its.v).v))

\* C15: whatever the interleaving of two requests, a request that has ended
\* has the outcome (crash, or status and body) it has when it runs alone
\* against the same geocoder, neighbor-map object and table.
C15_NoInterference ==
  \A r \in Reqs :
    Ended(r) =>
      Outcome(pc[r], response[r]) = RunAlone(address[r], s3obj, dynamo)

\* one request has answered 200 while the other, for another address, is in
\* the middle of its fan-out
C15_Witness ==
  \E r, q \in Reqs :
    /\ r # q /\ address[r] # address[q]
    /\ Responded(r) /\ Status(r) = 200
    /\ pc[q] = "join_all"
    /\ \E i \in TaskIds(q) : Finished(tasks[q][i])
    /\ \E i \in TaskIds(q) : ~Finished(tasks[q][i])

\* the strings of the model that are well-known text
WellKnownText ==
  {"POINT (30 10)", "POLYGON ((0 0, 4 0, 4 4, 0 0))", "POINT EMPTY"}

Malformed(it) == it.Geometry.s \notin WellKnownText

\* C16: a Geometry that is empty or is no well-known text transcodes to None;
\* the handler does not crash on it, it leaves the record out of the areas.
C16_TranscoderTotal ==
  \A r \in Reqs :
    (Ended(r) /\ FanOutOk(r)
       /\ \A k \in 1..Len(Returned(r)) : WellFormed(Returned(r)[k]))
    => /\ pc[r] = "done"
       /\ \A k \in 1..Len(Returned(r)) :
            Malformed(Returned(r)[k]) =>
              /\ wkt_to_geojson(Returned(r)[k].Geometry.s) = None
              /\ Status(r) = 200 =>
                   \A a \in 1..Len(Areas(r)) :
                      Areas(r)[a].geo_id # Returned(r)[k].GEOID.s

C16_Witness ==
  \E r \in Reqs :
    /\ Responded(r) /\ FanOutOk(r) /\ Status(r) = 404
    /\ \E k \in 1..Len(Returned(r)) : Returned(r)[k].Geometry.s = ""
    /\ \E k \in 1..Len(Returned(r)) :
          Returned(r)[k].Geometry.s = "POLYGON ((0 0, 4 0"
    /\ \A k \in 1..Len(Returned(r)) : Malformed(Returned(r)[k])

Count(seq, x) == Cardinality({k \in 1..Len(seq) : seq[k] = x})

\* how often county c is named by the target and the target's map entry
Mult(r, c) ==
  LET target == target_county[r].v
      map == s3obj.json.v
  IN (IF c = target THEN 1 ELSE 0)
       + (IF target \in DOMAIN map THEN Count(map[target], c) ELSE 0)

AllSpawned(r) ==
  tasks[r] # <<>> /\ pc[r] \in {"join_all", "assemble", "done", "panicked"}

\* C17: a county named m times by the target and its neighbor list has m
\* tasks, each of which queries the store; each of its records is m times in
\* the fan-out's result and, when it transcodes, m times in the areas.
C17_DuplicatesKept ==
  \A r \in Reqs :
    AllSpawned(r) =>
      \A c \in Counties :
        LET key == c \o " County"
            mine == {i \in TaskIds(r) : tasks[r][i].county_full = key}
            good == Transcodable(CountyIndex(dynamo, key))
        IN /\ Cardinality(mine) = Mult(r, c)
           /\ \A i \in mine :
                Finished(tasks[r][i]) => Len(tasks[r][i].sent) >= 1
           /\ FanOutOk(r) =>
                \A k \in 1..Len(CountyIndex(dynamo, key)) :
                   Count(Returned(r), CountyIndex(dynamo, key)[k]) = Mult(r, c)
           /\ (Responded(r) /\ Status(r) = 200) =>
                \A k \in 1..Len(good) :
                   Count(Areas(r), EntryOf(good[k], "crime_percentile"))
                     = Mult(r, c)

C17_Witness ==
  \E r \in Reqs :
    /\ Responded(r) /\ Status(r) = 200
    /\ \E c \in Counties :
         /\ Mult(r, c) = 2
         /\ \E a \in 1..Len(Areas(r)) :
               /\ Areas(r)[a].county = c \o " County"
               /\ Count(Areas(r), Areas(r)[a]) = 2

\* C18: the records query_dynamo returns are the tasks' result sets, and so
\* the counties' stored records, concatenated in the order of the county
\* list, in whatever order the tasks completed.
C18_InputOrder ==
  \A r \in Reqs :
    FanOutOk(r) =>
      /\ Returned(r) = Concat([i \in TaskIds(r) |-> tasks[r][i].output.v.v])
      /\ Returned(r) =
           Concat([i \in TaskIds(r) |-> CountyIndex(dynamo, KeyOf(r, i))])

\* a later county's task completed before an earlier county's, both with
\* records
C18_Witness ==
  \E r \in Reqs :
    /\ FanOutOk(r)
    /\ \E i, j \in TaskIds(r) :
         /\ i < j
         /\ tasks[r][j].done_at < tasks[r][i].done_at
         /\ tasks[r][i].county_full # tasks[r][j].county_full
         /\ tasks[r][i].results # <<>>
         /\ tasks[r][j].results # <<>>

\* the page request of a county that the store fails
FailPage(key) ==
  dynamo.failAt[CHOOSE c \in Counties : c \o " County" = key]

Earliest(ids) == CHOOSE i \in ids : \A j \in ids : i <= j

\* C19: when sub-queries have failed, query_dynamo returns the error of the
\* failed task that is first in the order of the county list, which is the
\* store's error for the first county of the list whose query fails, in
\* whatever order the tasks failed.
C19_EarliestCountyError ==
  \A r \in Reqs :
    (FanOutReturned(r) /\ FailedTasks(r) # {}) =>
      LET first == Earliest(FailedTasks(r))
      IN /\ items[r].v = tasks[r][first].output.v
         /\ first = Earliest({i \in TaskIds(r) : StoreFails(KeyOf(r, i))})
         /\ ~IsOk(items[r].v)
         /\ items[r].v.e.key = KeyOf(r, first)
         /\ items[r].v.e.page = FailPage(KeyOf(r, first))

\* two counties failed with different errors, the later one first in time
C19_Witness ==
  \E r \in Reqs :
    /\ FanOutReturned(r)
    /\ \E i, j \in FailedTasks(r) :
         /\ i < j
         /\ tasks[r][j].done_at < tasks[r][i].done_at
         /\ tasks[r][i].output.v # tasks[r][j].output.v
         /\ items[r].v = tasks[r][i].output.v

\* the county list a request for address a is going to query
CountySetOf(a) ==
  LET g == GeocodingExecute(a)
  IN IF ~IsOk(g) \/ ~MapUsable THEN <<>>
     ELSE IF g.v = <<>> THEN <<>>
     ELSE IF ~IsSome(TargetCounty(Head(g.v))) THEN <<>>
     ELSE CountiesToQuery(TargetCounty(Head(g.v)).v, s3obj.json.v)

\* the store returns a LastEvaluatedKey on every page of county c, and
\* fails none of the pages the loop comes to
Endless(c) ==
  /\ c \in Counties
  /\ c \in dynamo.endless
  /\ dynamo.failAt[c] \notin
       1..((dynamo.rows[c] \div dynamo.pageSize) + 1)

Started(r) == pc[r] # "idle"

Stuck(r) ==
  /\ Started(r)
  /\ \E k \in 1..Len(CountySetOf(address[r])) :
        Endless(CountySetOf(address[r])[k])

\* a request with an endless county never gets past join_all, and the
\* county's tasks never finish
NeverCompletes ==
  \A r \in Reqs :
    Stuck(r) =>
      /\ ~Ended(r) /\ ~FanOutReturned(r)
      /\ \A i \in TaskIds(r) :
           Endless(counties_to_query[r][i]) =>
              /\ ~Finished(tasks[r][i])
              /\ \A k \in 2..Len(tasks[r][i].sent) :
                    IsSome(tasks[r][i].sent[k])

\* C20: under weak fairness of the handler's and the tasks' steps, a request
\* that has arrived and whose county list holds no endless county eventually
\* ends (response or crash); a request whose county list holds an endless
\* county never ends: that county's task keeps sending page requests and
\* join_all never returns.
C20_TerminatesUnlessEndless ==
  /\ \A r \in Reqs : (Started(r) /\ ~Stuck(r)) ~> Ended(r)
  /\ []NeverCompletes

\* the request waits in join_all for a task that has gone through more
\* pages than any county has, while the other task has finished
C20_Witness ==
  \E r \in Reqs :
    /\ Stuck(r) /\ pc[r] = "join_all"
    /\ \E i, j \in TaskIds(r) :
         /\ Finished(tasks[r][j])
         /\ ~Finished(tasks[r][i])
         /\ Len(tasks[r][i].sent) > MaxRows

C20_WitnessTerminated ==
  \E r \in Reqs :
    /\ ~Stuck(r) /\ Responded(r) /\ Status(r) = 200
    /\ \E i \in TaskIds(r) : Len(tasks[r][i].sent) >= 2
    /\ dynamo.endless # {}

====
